---- MODULE Spec2Model ----
(***************************************************************************)
(* A model of mpi_futures: the request pool (RequestPoll), the Switch that *)
(* owns it, the Link through which futures reach it, the Send future, the  *)
(* Incoming stream and the per-message FutureBuffer.  One rank is          *)
(* modelled; the native layer and the other ranks are the environment      *)
(* (NativeComplete, Arrive).  Vec positions are 1-based here (Rust index   *)
(* i is position i + 1).  Spec lets the application call the operations in *)
(* any order; LiveSpec keeps the Switch alive and polled; ReentrySpec adds  *)
(* callers that hold the pool borrowed; EchoSpec and SerialSpec run the     *)
(* tasks of examples/simple.rs under its executor; TagSpec sends under any  *)
(* tag, MultiSpec runs several incoming streams, TeardownSpec drops the     *)
(* Switch on a native layer that completes what it was given.               *)
(***************************************************************************)
EXTENDS Integers, Sequences, FiniteSets, TLC

\* ---------------------------------------------------------------- bounds

\* number of send futures the application constructs
NumSends == 1
\* number of incoming streams MultiSpec runs on the one Switch
NumStreams == 2
\* number of messages the other ranks send to this rank
MaxMsgs == 2
\* longest message, in bytes
MaxLen == 1

Sends == 1..NumSends
\* A request is named after what posts it: send future s posts request
\* SendId(s), the probe that matches message m posts request RecvId(m).
SendId(s) == s
RecvId(m) == NumSends + m
Ids == 1..(NumSends + MaxMsgs)
Msgs == 1..MaxMsgs

\* the byte values that occur in messages
Bytes == {0, 255}
\* Vec<u8> values of at most MaxLen bytes, the empty one included
Messages == UNION {[1..n -> Bytes] : n \in 0..MaxLen}
\* content of a buffer byte that was allocated and never written
Uninit == -1
\* the tag of a request that is no send
NoTag == -1

VARIABLES
  requests,     \* RequestPoll.requests: the handle of each entry (its id)
  cancelables,  \* RequestPoll.cancelables
  callbacks,    \* RequestPoll.callbacks: [id, kind] of the boxed closure
  indices,      \* RequestPoll.indices: completed positions of the last sweep
  stop,         \* Inner.stop
  phase,        \* the Switch (the only strong Rc): "live", "draining", "gone"
  ready,        \* a poll of the Switch has returned Ready
  panicked,     \* "none", or the message of the panic that is unwinding
  closes,       \* history: how often Link::close has been called (up to 2)
  borrow,       \* RefCell<Inner>: number of mutable borrows handed out
  armed,        \* the Switch's task is notified (it will be polled again)
  nat,          \* native state of each request: none/active/cancelling/
                \* done/cancelled/null
  cancelIssued, \* history: ids MPI_Cancel was called on
  buf,          \* where each request's buffer is: none/pinned/delivered/user/freed
  tx,           \* one-shot sender of each request: none/open/sent/failed/dropped
  rxAlive,      \* one-shot receiver of each request still exists
  invoked,      \* history: how often each entry's callback was invoked
  destroyed,    \* history: how often each entry's callback was dropped uninvoked
  sstate,       \* Send.0 of each send future: None/Pending/Started/Invalid/Dropped
                \* (Raw: the slot's request was posted on the pool directly)
  sresolved,    \* the send future has returned Ready
  iended,       \* the incoming stream has returned Ready(None)
  fb,           \* FutureBuffer of each receive: none/held/resolved/dropped
  mailbox,      \* messages arrived and not yet matched by a probe
  arrived,      \* number of messages that have arrived so far
  wire,         \* what each arrived message carries: [bytes, tag], or "none"
  sentMsg,      \* history: the message the sender handed to its codec
  data,         \* content of each receive's buffer
  matched,      \* history: the messages the stream's probes matched, in order
  yielded,      \* history: the receives the stream yielded, in order
  consumed,     \* history: the receives whose FutureBuffer resolved, in order
  ntag,         \* the tag each send was handed to the native layer with
  owner,        \* history: the incoming stream that matched each message
  answer,       \* the index list the native call of the operation that just
                \* ended wrote
  calls         \* the callbacks the operation that just ended ran, in order

poolVars == <<requests, cancelables, callbacks, indices>>
nativeVars == <<nat, cancelIssued, mailbox, arrived>>
chanVars == <<buf, tx, rxAlive, invoked, destroyed>>
sendVars == <<sstate, sresolved>>
cellVars == <<borrow, armed>>
codecVars == <<wire, sentMsg, data>>
streamVars == <<matched, yielded, consumed>>
tagVars == <<ntag, owner>>
vars == <<requests, cancelables, callbacks, indices, stop, phase, ready,
          panicked, closes, borrow, armed, nat, cancelIssued, buf, tx,
          rxAlive, invoked, destroyed, sstate, sresolved, iended, fb, mailbox,
          arrived, wire, sentMsg, data, matched, yielded, consumed, ntag,
          owner, answer, calls>>

\* ------------------------------------------------------- sequence helpers

Range(s) == {s[i] : i \in DOMAIN s}

Reverse(s) == [i \in 1..Len(s) |-> s[Len(s) + 1 - i]]

Min(S) == CHOOSE x \in S : \A y \in S : x <= y

\* all orders in which the elements of the finite set S can be listed
Perms(S) ==
  {p \in [1..Cardinality(S) -> S] : \A i, j \in 1..Cardinality(S) :
                                        p[i] = p[j] => i = j}

RECURSIVE Remove1(_, _)
Remove1(s, x) ==
  IF s = <<>> THEN <<>>
  ELSE IF Head(s) = x THEN Tail(s) ELSE <<Head(s)>> \o Remove1(Tail(s), x)

\* Vec<c_int>::sort: ascending, duplicates kept
RECURSIVE Sort(_)
Sort(s) ==
  IF s = <<>> THEN <<>>
  ELSE <<Min(Range(s))>> \o Sort(Remove1(s, Min(Range(s))))

\* Vec::swap_remove(i): the last element takes the place of the removed one
SwapRemovePop(v, i) == IF v = <<>> THEN v ELSE SubSeq(v, 1, Len(v) - 1)

\* Vec::swap_remove(i): the last element takes the place of the removed one
SwapRemove(v, i) ==
  IF i \notin 1..Len(v) THEN v
  ELSE [j \in 1..(Len(v) - 1) |-> IF j = i THEN v[Len(v)] ELSE v[j]]

\* ------------------------------------------------------------- one-shots

\* oneshot::Sender::send: the value is stored unless the receiver is gone
OneshotSend(receiverAlive) == IF receiverAlive THEN "sent" ELSE "failed"

OneshotPollEager(t) ==
  CASE t = "dropped" -> "canceled"
    [] OTHER -> "value"

\* oneshot::Receiver::poll on a channel whose sender is in state t
OneshotPoll(t) ==
  CASE t = "sent" -> "value"
    [] t = "dropped" -> "canceled"
    [] OTHER -> "notready"

\* send.rs poll_receiver: receiver.poll().unwrap_or(Async::Ready(()))
PollReceiverStrict(t) ==
  CASE OneshotPoll(t) = "value" -> "ready"
    [] OneshotPoll(t) = "canceled" -> "panic"
    [] OTHER -> "notready"

PollReceiver(t) ==
  CASE OneshotPoll(t) = "value" -> "ready"
    [] OneshotPoll(t) = "canceled" -> "ready"
    [] OTHER -> "notready"

\* incoming.rs FutureBuffer::poll: Err(Canceled) => panic!("sender cancelled")
FutureBufferResult(t) ==
  CASE OneshotPoll(t) = "value" -> "ready"
    [] OneshotPoll(t) = "canceled" -> "panic"
    [] OTHER -> "notready"

\* ----------------------------------------------------------------- codec

\* U8Codec::encode: s.send_from(msg, 0), the message's bytes under tag zero
U8Encode(msg) == [bytes |-> msg, tag |-> 0]

\* status.count(u8::equivalent_datatype()): the number of u8 elements of the
\* probed message
StatusCount(w) == Len(w.bytes)

U8DecodeLenShort(count) == IF count > 0 THEN count - 1 ELSE 0

\* U8Codec::decode: len = count.value_into().unwrap() (c_int to usize)
U8DecodeLen(count) == count

\* U8Codec::decode: Vec::with_capacity(len) and set_len(len): len bytes, none
\* of them written
U8DecodeBuffer(len) == [i \in 1..len |-> Uninit]

\* the matched receive, once complete, has written the message's bytes over
\* the start of the buffer
MatchedReceive(b, w) ==
  [i \in 1..Len(b) |-> IF i <= Len(w.bytes) THEN w.bytes[i] ELSE b[i]]

\* u16::MAX: the largest tag RequestPoll::send accepts
U16Max == 65535
\* the tag upper bound every MPI implementation supports at least
MinTagUB == 32767
\* libc::c_int::MAX
CIntMax == 2147483647

TagToNativeNarrow(t) ==
  IF t <= MinTagUB THEN [ok |-> TRUE, value |-> t]
  ELSE [ok |-> FALSE, value |-> NoTag]

\* RequestPoll::send: tag.value_into() from u16 to c_int, which unwrap()
\* turns into a panic when the value does not fit
TagToNative(t) ==
  IF t <= CIntMax THEN [ok |-> TRUE, value |-> t]
  ELSE [ok |-> FALSE, value |-> NoTag]

\* Vec::remove(k) on a sequence
RemoveAtKeep(s, k) == s

\* immediate_matched_probe (MPI_Improbe) takes the matched message out of
\* the queue of messages that can still be matched
RemoveAt(s, k) == [i \in 1..(Len(s) - 1) |-> IF i < k THEN s[i] ELSE s[i + 1]]

\* ----------------------------------------------------------- RequestPoll

Inc(n) == IF n < 2 THEN n + 1 ELSE 2

InvokeCallbackLeak(cb, st) ==
  [tx |-> [st.tx EXCEPT ![cb.id] = OneshotSend(st.rx[cb.id])],
   buf |-> [st.buf EXCEPT ![cb.id] =
              IF cb.kind = "recv" THEN "delivered" ELSE "freed"],
   invoked |-> [st.invoked EXCEPT ![cb.id] = Inc(@)],
   rx |-> st.rx,
   calls |-> Append(st.calls, cb.id)]

\* The closure stored by RequestPoll::send / mrecv, run on the channel state
\* st = [tx, buf, invoked, rx]: a send's callback drops the buffer and
\* signals the one-shot; a receive's callback reassembles the buffer from its
\* anchor and sends it through the one-shot (dropping it if nobody listens).
InvokeCallback(cb, st) ==
  [tx |-> [st.tx EXCEPT ![cb.id] = OneshotSend(st.rx[cb.id])],
   buf |-> [st.buf EXCEPT ![cb.id] =
              IF cb.kind = "recv" /\ st.rx[cb.id] THEN "delivered" ELSE "freed"],
   invoked |-> [st.invoked EXCEPT ![cb.id] = Inc(@)],
   rx |-> st.rx,
   calls |-> Append(st.calls, cb.id)]

RECURSIVE CallbackPhaseInterleaved(_, _, _)
CallbackPhaseInterleaved(ix, cbs, st) ==
  IF ix = <<>> THEN st
  ELSE CallbackPhaseInterleaved(
         Tail(ix), SwapRemove(cbs, Head(ix)),
         IF Head(ix) \in 1..Len(cbs) THEN InvokeCallback(cbs[Head(ix)], st)
         ELSE st)

\* flush, first loop: the callbacks at the reported positions, in that order
RECURSIVE CallbackPhase(_, _, _)
CallbackPhase(ix, cbs, st) ==
  IF ix = <<>> THEN st
  ELSE CallbackPhase(Tail(ix), cbs, InvokeCallback(cbs[Head(ix)], st))

DrainOrderAscending(ix) == Sort(ix)

\* flush: self.indices.sort(); for i in self.indices.drain(..).rev()
DrainOrder(ix) == Reverse(Sort(ix))

\* flush, second loop on one of the three vectors
RECURSIVE Compact(_, _)
Compact(v, order) ==
  IF order = <<>> THEN v
  ELSE Compact(SwapRemove(v, Head(order)), Tail(order))

\* MPI_Testsome / MPI_Waitsome: the positions whose request has completed
CompletedPositions(reqs, n) == {i \in 1..Len(reqs) : n[reqs[i]] = "done"}

\* MPI_UNDEFINED: the outcount of MPI_Testsome / MPI_Waitsome when the list
\* it was handed holds no active request
MpiUndefined == -32766

\* the outcount the native call would write for the pool reqs
NativeOutcount(reqs, n) ==
  IF \A i \in 1..Len(reqs) : n[reqs[i]] \notin {"active", "done"}
  THEN MpiUndefined
  ELSE Cardinality(CompletedPositions(reqs, n))

WaitReturnsBlocking(reqs, n) == CompletedPositions(reqs, n) # {}

\* wait(): poll_with returns at once on an empty pool, and MPI_Waitsome
\* blocks until at least one request of the list has completed
WaitReturns(reqs, n) ==
  Len(reqs) = 0 \/ CompletedPositions(reqs, n) # {}

\* poll_with: nothing is asked of the native layer when the pool is empty
\* (the index cache keeps its content); otherwise the native call reports the
\* completed positions in an order of its choosing.
PollWithResults(reqs, n, cache) ==
  IF Len(reqs) = 0 THEN {cache} ELSE Perms(CompletedPositions(reqs, n))

\* test() / wait(): poll_with, then flush, for the native answer ix.  The
\* result of the callback loop (st) and the order of the removal loop are
\* each computed once.
Sweep(ix) ==
  \E st \in {CallbackPhase(ix, callbacks,
                            [tx |-> tx, buf |-> buf, invoked |-> invoked,
                             rx |-> rxAlive, calls |-> <<>>])},
     order \in {DrainOrder(ix)},
     reported \in {IF Len(requests) = 0 THEN {}
                   ELSE {requests[ix[k]] : k \in 1..Len(ix)}} :
    /\ requests' = Compact(requests, order)
    /\ cancelables' = Compact(cancelables, order)
    /\ callbacks' = Compact(callbacks, order)
    /\ indices' = <<>>
    /\ nat' = [id \in Ids |-> IF id \in reported THEN "null" ELSE nat[id]]
    /\ tx' = st.tx
    /\ buf' = st.buf
    /\ invoked' = st.invoked
    /\ calls' = st.calls
    /\ answer' = ix

InsertFront(id, kind, cancelable) ==
  /\ requests' = <<id>> \o requests
  /\ cancelables' = <<cancelable>> \o cancelables
  /\ callbacks' = <<[id |-> id, kind |-> kind]>> \o callbacks
  /\ indices' = indices
  /\ nat' = [nat EXCEPT ![id] = "active"]
  /\ buf' = [buf EXCEPT ![id] = "pinned"]
  /\ tx' = [tx EXCEPT ![id] = "open"]
  /\ rxAlive' = [rxAlive EXCEPT ![id] = TRUE]

\* insert, called by send (cancelable = false) and mrecv (cancelable = true)
Insert(id, kind, cancelable) ==
  /\ requests' = Append(requests, id)
  /\ cancelables' = Append(cancelables, cancelable)
  /\ callbacks' = Append(callbacks, [id |-> id, kind |-> kind])
  /\ indices' = indices
  /\ nat' = [nat EXCEPT ![id] = "active"]
  /\ buf' = [buf EXCEPT ![id] = "pinned"]
  /\ tx' = [tx EXCEPT ![id] = "open"]
  /\ rxAlive' = [rxAlive EXCEPT ![id] = TRUE]

CancelTargetsAll(reqs, cans) == {reqs[i] : i \in 1..Len(reqs)}

\* Drop for RequestPoll, first loop: MPI_Cancel on the cancelable entries
CancelTargets(reqs, cans) == {reqs[i] : i \in {j \in 1..Len(reqs) : cans[j]}}

WaitAllNoWait(reqs, n) == TRUE

\* wait_all returns once no request of the pool is still in progress
WaitAllReturns(reqs, n) ==
  \A i \in 1..Len(reqs) : n[reqs[i]] \notin {"active", "cancelling"}

BufAfterForget(cbs, b) == b

\* Drop for RequestPoll, end: the callbacks vector is dropped, and with each
\* closure the anchor or buffer it owns
BufAfterDrop(cbs, b) ==
  [id \in Ids |-> IF \E i \in 1..Len(cbs) : cbs[i].id = id THEN "freed"
                  ELSE b[id]]

\* ... and the one-shot sender it owns
TxAfterDrop(cbs, t) ==
  [id \in Ids |-> IF \E i \in 1..Len(cbs) : cbs[i].id = id THEN "dropped"
                  ELSE t[id]]

DestroyedAfterDrop(cbs, d) ==
  [id \in Ids |->
     IF Cardinality({i \in 1..Len(cbs) : cbs[i].id = id}) = 0 THEN d[id]
     ELSE IF Cardinality({i \in 1..Len(cbs) : cbs[i].id = id}) = 1
          THEN Inc(d[id]) ELSE 2]

UpgradeAlways(p) == p # "draining"

\* Weak::upgrade in Link: the Inner is reachable while the Switch exists
Upgrade(p) == p = "live"

BorrowMutUnchecked(b) == "ok"

\* RefCell::borrow_mut on a cell with b mutable borrows out
BorrowMut(b) == IF b = 0 THEN "ok" ELSE "panic"

RearmLost(a) == FALSE

\* Switch::poll, not-ready branch: task::park().unpark() notifies the task
\* that is being polled
Rearm(a) == TRUE

CloseStopToggle(alive, flag) == IF alive THEN ~flag ELSE flag

\* Link::close: upgrade().map(|inner| inner.borrow_mut().stop = true)
CloseStop(alive, flag) == IF alive THEN TRUE ELSE flag

StreamYieldFront(items, id) == <<id>> \o items

\* Incoming::poll returns Ready(Some(..)): the item for the matched message
\* is the next one of the stream
StreamYield(items, id) == Append(items, id)

\* what a poll that ends with result r leaves in panicked
Panic(r, message) == IF r = "panic" THEN message ELSE "none"

\* ------------------------------------------------------------------ Init

Init ==
  /\ requests = <<>>
  /\ cancelables = <<>>
  /\ callbacks = <<>>
  /\ indices = <<>>
  /\ stop = FALSE
  /\ phase = "live"
  /\ ready = FALSE
  /\ panicked = "none"
  /\ closes = 0
  /\ borrow = 0
  /\ armed = TRUE
  /\ nat = [id \in Ids |-> "none"]
  /\ cancelIssued = {}
  /\ buf = [id \in Ids |-> "none"]
  /\ tx = [id \in Ids |-> "none"]
  /\ rxAlive = [id \in Ids |-> FALSE]
  /\ invoked = [id \in Ids |-> 0]
  /\ destroyed = [id \in Ids |-> 0]
  /\ sstate = [s \in Sends |-> "None"]
  /\ sresolved = [s \in Sends |-> FALSE]
  /\ iended = FALSE
  /\ fb = [id \in Ids |-> "none"]
  /\ mailbox = <<>>
  /\ arrived = 0
  /\ wire = [m \in Msgs |-> U8Encode(<<>>)]
  /\ sentMsg = [m \in Msgs |-> <<>>]
  /\ data = [id \in Ids |-> <<>>]
  /\ matched = <<>>
  /\ yielded = <<>>
  /\ consumed = <<>>
  /\ ntag = [id \in Ids |-> NoTag]
  /\ owner = [m \in Msgs |-> 0]
  /\ answer = <<>>
  /\ calls = <<>>

\* the program runs its own code: no panic is unwinding, no teardown is
\* blocked in wait_all and no closure of modify_request_poll is running
Running == panicked = "none" /\ phase # "draining" /\ borrow = 0

\* ------------------------------------------------------------ environment

\* the native layer finishes the transfer of an outstanding request; a
\* matched receive has then written the message into its buffer
NativeComplete(id) ==
  /\ nat[id] \in {"active", "cancelling"}
  /\ \E outcome \in IF nat[id] = "active" THEN {"done"}
                     ELSE {"done", "cancelled"} :
       /\ nat' = [nat EXCEPT ![id] = outcome]
       /\ data' = IF id > NumSends /\ outcome = "done"
                  THEN [data EXCEPT
                          ![id] = MatchedReceive(@, wire[id - NumSends])]
                  ELSE data
  /\ calls' = <<>>
  /\ answer' = <<>>
  /\ UNCHANGED tagVars
  /\ UNCHANGED <<poolVars, stop, phase, ready, panicked, closes, cellVars,
                 cancelIssued, chanVars, sendVars, iended, fb, mailbox,
                 arrived, wire, sentMsg, streamVars>>

\* a message of another rank arrives and can be matched by a probe; that rank
\* sent it through the same codec
Arrive ==
  /\ arrived < MaxMsgs
  /\ arrived' = arrived + 1
  /\ mailbox' = Append(mailbox, arrived + 1)
  /\ \E msg \in Messages :
       /\ sentMsg' = [sentMsg EXCEPT ![arrived + 1] = msg]
       /\ wire' = [wire EXCEPT ![arrived + 1] = U8Encode(msg)]
  /\ calls' = <<>>
  /\ answer' = <<>>
  /\ UNCHANGED tagVars
  /\ UNCHANGED <<poolVars, stop, phase, ready, panicked, closes, cellVars, nat,
                 cancelIssued, chanVars, sendVars, iended, fb, data,
                 streamVars>>

\* ------------------------------------------------------------ Send future

\* LinkedCodec::send / Send::new: the future is built in state Pending
NewSendEager(s) ==
  /\ Running
  /\ sstate[s] = "None"
  /\ Upgrade(phase)
  /\ Insert(SendId(s), "send", FALSE)
  /\ sstate' = [sstate EXCEPT ![s] = "Pending"]
  /\ ntag' = [ntag EXCEPT ![SendId(s)] = 0]
  /\ calls' = <<>>
  /\ answer' = <<>>
  /\ UNCHANGED <<stop, phase, ready, panicked, closes, cellVars, cancelIssued,
                 mailbox, arrived, invoked, destroyed, sresolved, iended, fb,
                 codecVars, streamVars, owner>>

\* Send::new: the future is built in state Pending, nothing else happens
NewSend(s) ==
  /\ Running
  /\ sstate[s] = "None"
  /\ sstate' = [sstate EXCEPT ![s] = "Pending"]
  /\ calls' = <<>>
  /\ answer' = <<>>
  /\ UNCHANGED tagVars
  /\ UNCHANGED <<poolVars, stop, phase, ready, panicked, closes, cellVars,
                 nativeVars, chanVars, sresolved, iended, fb, codecVars,
                 streamVars>>

\* Send::poll, State::Pending with the Switch gone: Ready, Invalid is left
SendPollOrphan(s) ==
  /\ sstate[s] = "Pending"
  /\ ~Upgrade(phase)
  /\ sstate' = [sstate EXCEPT ![s] = "Invalid"]
  /\ sresolved' = [sresolved EXCEPT ![s] = TRUE]
  /\ calls' = <<>>
  /\ answer' = <<>>
  /\ UNCHANGED tagVars
  /\ UNCHANGED <<poolVars, stop, phase, ready, panicked, closes, cellVars,
                 nativeVars, chanVars, iended, fb, codecVars, streamVars>>

\* Send::poll, State::Pending with the Switch alive: the codec encodes, the
\* pool posts the send, the fresh receiver is polled, Started is stored
\* Send::poll, Pending arm, with a codec whose encode calls
\* send_from(buf, t): RequestPoll::send converts the tag and posts the send
SendPollPostTag(s, t) ==
  /\ sstate[s] = "Pending"
  /\ Upgrade(phase)
  /\ \E c \in {TagToNative(t)} :
       IF c.ok
       THEN /\ Insert(SendId(s), "send", FALSE)
            /\ sstate' = [sstate EXCEPT ![s] = "Started"]
            /\ sresolved' = [sresolved EXCEPT
                               ![s] = PollReceiver("open") = "ready"]
            /\ ntag' = [ntag EXCEPT ![SendId(s)] = c.value]
            /\ panicked' = panicked
       ELSE /\ panicked' = "unwrap"
            /\ sstate' = [sstate EXCEPT ![s] = "Invalid"]
            /\ UNCHANGED <<poolVars, nat, buf, tx, rxAlive, sresolved, ntag>>
  /\ calls' = <<>>
  /\ answer' = <<>>
  /\ UNCHANGED owner
  /\ UNCHANGED <<stop, phase, ready, closes, cellVars, cancelIssued,
                 mailbox, arrived, invoked, destroyed, iended, fb, codecVars,
                 streamVars>>

\* Send::poll, Pending arm, with U8Codec
SendPollPost(s) == SendPollPostTag(s, U8Encode(<<>>).tag)

\* Send::poll, State::Started: the receiver is moved out of the state (which
\* now holds Invalid), polled, and dropped when the function returns
SendPollStarted(s) ==
  /\ sstate[s] = "Started"
  /\ sstate' = [sstate EXCEPT ![s] = "Invalid"]
  /\ rxAlive' = [rxAlive EXCEPT ![SendId(s)] = FALSE]
  /\ panicked' = Panic(PollReceiver(tx[SendId(s)]), "unwrap")
  /\ sresolved' = [sresolved EXCEPT ![s] = PollReceiver(tx[SendId(s)]) = "ready"]
  /\ calls' = <<>>
  /\ answer' = <<>>
  /\ UNCHANGED tagVars
  /\ UNCHANGED <<poolVars, stop, phase, ready, closes, cellVars, nativeVars,
                 buf, tx, invoked, destroyed, iended, fb, codecVars,
                 streamVars>>

\* Send::poll, State::Invalid: panic!("invalid state")
SendPollInvalid(s) ==
  /\ sstate[s] = "Invalid"
  /\ panicked' = "invalid state"
  /\ calls' = <<>>
  /\ answer' = <<>>
  /\ UNCHANGED tagVars
  /\ UNCHANGED <<poolVars, stop, phase, ready, closes, cellVars, nativeVars,
                 chanVars, sendVars, iended, fb, codecVars, streamVars>>

\* Send::poll, for a future that has not yet returned Ready
SendPoll(s) ==
  /\ Running
  /\ ~sresolved[s]
  /\ \/ SendPollOrphan(s)
     \/ SendPollPost(s)
     \/ SendPollStarted(s)
     \/ SendPollInvalid(s)

\* Send::poll of a future built with a codec that sends under tag t
CodecSendPoll(s, t) ==
  /\ Running
  /\ ~sresolved[s]
  /\ \/ SendPollOrphan(s)
     \/ SendPollPostTag(s, t)
     \/ SendPollStarted(s)
     \/ SendPollInvalid(s)

\* the application drops a send future it has not finished with: a receiver
\* the future holds goes with it
DropSend(s) ==
  /\ Running
  /\ sstate[s] \in {"Pending", "Started"}
  /\ sstate' = [sstate EXCEPT ![s] = "Dropped"]
  /\ rxAlive' = IF sstate[s] = "Started"
                THEN [rxAlive EXCEPT ![SendId(s)] = FALSE] ELSE rxAlive
  /\ calls' = <<>>
  /\ answer' = <<>>
  /\ UNCHANGED tagVars
  /\ UNCHANGED <<poolVars, stop, phase, ready, panicked, closes, cellVars,
                 nativeVars, buf, tx, invoked, destroyed, sresolved,
                 iended, fb, codecVars, streamVars>>

\* -------------------------------------------- Incoming and FutureBuffer

\* Incoming::poll with the Switch gone: Ready(None)
IncomingPollOrphan ==
  /\ ~Upgrade(phase)
  /\ iended' = TRUE
  /\ calls' = <<>>
  /\ answer' = <<>>
  /\ UNCHANGED tagVars
  /\ UNCHANGED <<poolVars, stop, phase, ready, panicked, closes, cellVars,
                 nativeVars, chanVars, sendVars, fb, codecVars, streamVars>>

\* Incoming::poll, the probe matches nothing: the task is re-armed, NotReady
IncomingPollNoMatch ==
  /\ Upgrade(phase)
  /\ mailbox = <<>>
  /\ calls' = <<>>
  /\ answer' = <<>>
  /\ UNCHANGED tagVars
  /\ UNCHANGED <<poolVars, stop, phase, ready, panicked, closes, cellVars,
                 nativeVars, chanVars, sendVars, iended, fb, codecVars,
                 streamVars>>

\* Incoming::poll, the probe matches the message at place k of the mailbox:
\* the codec sizes a buffer from the status, recv_into posts the matched
\* receive and the stream yields the FutureBuffer holding the receiver
\* Incoming::poll of stream t, Some arm: the probe matched mailbox entry k
StreamMatch(t, k) ==
  /\ Upgrade(phase)
  /\ k \in 1..Len(mailbox)
  /\ mailbox' = RemoveAt(mailbox, k)
  /\ Insert(RecvId(mailbox[k]), "recv", TRUE)
  /\ data' = [data EXCEPT ![RecvId(mailbox[k])] =
                U8DecodeBuffer(U8DecodeLen(StatusCount(wire[mailbox[k]])))]
  /\ fb' = [fb EXCEPT ![RecvId(mailbox[k])] = "held"]
  /\ matched' = Append(matched, mailbox[k])
  /\ yielded' = StreamYield(yielded, RecvId(mailbox[k]))
  /\ owner' = [owner EXCEPT ![mailbox[k]] = t]
  /\ calls' = <<>>
  /\ answer' = <<>>
  /\ UNCHANGED ntag
  /\ UNCHANGED <<stop, phase, ready, panicked, closes, cellVars, cancelIssued,
                 arrived, invoked, destroyed, sendVars, iended, wire,
                 sentMsg, consumed>>

\* Incoming::poll, for a stream that has not ended.  A probe for any source
\* may match any of the messages that have arrived from different ranks.
\* Incoming::poll of the stream of a rank that runs one stream
IncomingPollMatch(k) == StreamMatch(1, k)

\* Incoming::poll of stream t of a rank that runs several on one Switch
StreamPoll(t) ==
  /\ Running
  /\ \/ IncomingPollNoMatch
     \/ \E k \in 1..Len(mailbox) : StreamMatch(t, k)

IncomingPoll ==
  /\ Running
  /\ ~iended
  /\ \/ IncomingPollOrphan
     \/ IncomingPollNoMatch
     \/ \E k \in 1..Len(mailbox) : IncomingPollMatch(k)

\* FutureBuffer::poll: the buffer if the callback delivered it, a panic if the
\* sender was dropped, NotReady otherwise
FutureBufferPoll(id) ==
  /\ Running
  /\ fb[id] = "held"
  /\ fb' = [fb EXCEPT ![id] =
              IF FutureBufferResult(tx[id]) = "ready" THEN "resolved" ELSE @]
  /\ buf' = [buf EXCEPT ![id] =
               IF FutureBufferResult(tx[id]) = "ready" THEN "user" ELSE @]
  /\ consumed' = IF FutureBufferResult(tx[id]) = "ready"
                 THEN Append(consumed, id) ELSE consumed
  /\ panicked' = Panic(FutureBufferResult(tx[id]), "sender cancelled")
  /\ calls' = <<>>
  /\ answer' = <<>>
  /\ UNCHANGED tagVars
  /\ UNCHANGED <<poolVars, stop, phase, ready, closes, cellVars, nativeVars,
                 tx, rxAlive, invoked, destroyed, sendVars, iended, codecVars,
                 matched, yielded>>

\* the application drops a FutureBuffer: its receiver goes, and with it a
\* buffer that was delivered and never taken
DropFutureBuffer(id) ==
  /\ Running
  /\ fb[id] = "held"
  /\ fb' = [fb EXCEPT ![id] = "dropped"]
  /\ rxAlive' = [rxAlive EXCEPT ![id] = FALSE]
  /\ buf' = [buf EXCEPT ![id] = IF @ = "delivered" THEN "freed" ELSE @]
  /\ calls' = <<>>
  /\ answer' = <<>>
  /\ UNCHANGED tagVars
  /\ UNCHANGED <<poolVars, stop, phase, ready, panicked, closes, cellVars,
                 nativeVars, tx, invoked, destroyed, sendVars, iended,
                 codecVars, streamVars>>

\* ------------------------------------------------------- Switch and Link

\* Switch::poll with stop set: Ready, nothing else; the task is finished
SwitchPollReady ==
  /\ stop
  /\ ready' = TRUE
  /\ armed' = FALSE
  /\ calls' = <<>>
  /\ answer' = <<>>
  /\ UNCHANGED tagVars
  /\ UNCHANGED <<poolVars, stop, phase, panicked, closes, borrow, nativeVars,
                 chanVars, sendVars, iended, fb, codecVars, streamVars>>

\* Switch::poll otherwise: request_poll.test(), task::park().unpark(),
\* NotReady
SwitchPollTest ==
  /\ ~stop
  /\ \E ix \in PollWithResults(requests, nat, indices) :
       /\ \A k \in 1..Len(ix) : callbacks[ix[k]].kind # "user"
       /\ Sweep(ix)
  /\ armed' = Rearm(armed)
  /\ UNCHANGED tagVars
  /\ UNCHANGED <<stop, phase, ready, panicked, closes, borrow, cancelIssued,
                 mailbox, arrived, rxAlive, destroyed, sendVars, iended, fb,
                 codecVars, streamVars>>

SwitchPoll ==
  /\ Running
  /\ phase = "live"
  /\ \/ SwitchPollReady
     \/ SwitchPollTest

\* RequestPoll::wait through Link::modify_request_poll: returns at once on an
\* empty pool, otherwise once the native layer reports a completion
PoolWait ==
  /\ Running
  /\ Upgrade(phase)
  /\ WaitReturns(requests, nat)
  /\ \E ix \in PollWithResults(requests, nat, indices) : Sweep(ix)
  /\ UNCHANGED tagVars
  /\ UNCHANGED <<stop, phase, ready, panicked, closes, cellVars, cancelIssued,
                 mailbox, arrived, rxAlive, destroyed, sendVars, iended, fb,
                 codecVars, streamVars>>

\* Link::close: sets stop if the Switch still exists
Close ==
  /\ Running
  /\ stop' = CloseStop(Upgrade(phase), stop)
  /\ closes' = Inc(closes)
  /\ calls' = <<>>
  /\ answer' = <<>>
  /\ UNCHANGED tagVars
  /\ UNCHANGED <<poolVars, phase, ready, panicked, cellVars, nativeVars,
                 chanVars, sendVars, iended, fb, codecVars, streamVars>>

\* The Switch is dropped (by its owner, by the executor once it has returned
\* Ready, or by an unwinding panic).  Drop for RequestPoll starts: MPI_Cancel
\* on every cancelable entry, then wait_all blocks.
DropSwitch ==
  /\ phase = "live"
  /\ borrow = 0
  /\ phase' = "draining"
  /\ cancelIssued' = cancelIssued \cup CancelTargets(requests, cancelables)
  /\ nat' = [id \in Ids |->
               IF id \in CancelTargets(requests, cancelables)
                  /\ nat[id] = "active"
               THEN "cancelling" ELSE nat[id]]
  /\ calls' = <<>>
  /\ answer' = <<>>
  /\ UNCHANGED tagVars
  /\ UNCHANGED <<poolVars, stop, ready, panicked, closes, cellVars, mailbox,
                 arrived, chanVars, sendVars, iended, fb, codecVars,
                 streamVars>>

\* wait_all returns: every request is inactive; free_all finds nothing to
\* free; the three vectors are dropped, and with the callbacks their anchors,
\* buffers and one-shot senders
DropFinish ==
  /\ phase = "draining"
  /\ WaitAllReturns(requests, nat)
  /\ phase' = "gone"
  /\ nat' = [id \in Ids |->
               IF id \in Range(requests)
                  /\ nat[id] \notin {"active", "cancelling"}
               THEN "null" ELSE nat[id]]
  /\ buf' = BufAfterDrop(callbacks, buf)
  /\ tx' = TxAfterDrop(callbacks, tx)
  /\ destroyed' = DestroyedAfterDrop(callbacks, destroyed)
  /\ requests' = <<>>
  /\ cancelables' = <<>>
  /\ callbacks' = <<>>
  /\ indices' = <<>>
  /\ calls' = <<>>
  /\ answer' = <<>>
  /\ UNCHANGED tagVars
  /\ UNCHANGED <<stop, ready, panicked, closes, cellVars, cancelIssued,
                 mailbox, arrived, rxAlive, invoked, sendVars, iended, fb,
                 codecVars, streamVars>>

\* ------------------------------------- callers that hold the pool borrowed

\* Link::modify_request_poll(f) up to the call of f: the Inner is upgraded
\* and borrowed mutably for as long as f runs.  Called by the application, or
\* by f itself (a nested call) when a borrow is already out.
ModifyEnter ==
  /\ panicked = "none"
  /\ Upgrade(phase)
  /\ borrow < 2
  /\ borrow' = IF BorrowMut(borrow) = "ok" THEN borrow + 1 ELSE borrow
  /\ panicked' = Panic(BorrowMut(borrow), "already borrowed")
  /\ calls' = <<>>
  /\ answer' = <<>>
  /\ UNCHANGED tagVars
  /\ UNCHANGED <<poolVars, stop, phase, ready, closes, armed, nativeVars,
                 chanVars, sendVars, iended, fb, codecVars, streamVars>>

\* f returns: the RefMut is dropped
ModifyExit ==
  /\ panicked = "none"
  /\ borrow > 0
  /\ borrow' = borrow - 1
  /\ calls' = <<>>
  /\ answer' = <<>>
  /\ UNCHANGED tagVars
  /\ UNCHANGED <<poolVars, stop, phase, ready, panicked, closes, armed,
                 nativeVars, chanVars, sendVars, iended, fb, codecVars,
                 streamVars>>

\* inside f, the application posts a send on the pool itself (no Send future
\* is built for slot s), with a callback of its own that calls
\* link.modify_request_poll
PostUser(s) ==
  /\ panicked = "none"
  /\ borrow = 1
  /\ sstate[s] = "None"
  /\ Insert(SendId(s), "user", FALSE)
  /\ sstate' = [sstate EXCEPT ![s] = "Raw"]
  /\ ntag' = [ntag EXCEPT ![SendId(s)] = TagToNative(U8Encode(<<>>).tag).value]
  /\ calls' = <<>>
  /\ answer' = <<>>
  /\ UNCHANGED owner
  /\ UNCHANGED <<stop, phase, ready, panicked, closes, cellVars, cancelIssued,
                 mailbox, arrived, invoked, destroyed, sresolved, iended, fb,
                 codecVars, streamVars>>

\* the place in ix of the first callback that re-enters the Link
FirstUser(ix) == Min({k \in 1..Len(ix) : callbacks[ix[k]].kind = "user"})

\* Switch::poll, not-ready branch, when the native layer reports an entry
\* whose callback re-enters the Link: flush runs the callbacks before it,
\* then this one, which calls modify_request_poll while Switch::poll holds
\* the borrow.  The panic leaves flush before its removal loop; unwinding
\* releases the borrow.
SwitchPollReenter ==
  /\ Running
  /\ phase = "live"
  /\ ~stop
  /\ \E ix \in PollWithResults(requests, nat, indices) :
       /\ \E k \in 1..Len(ix) : callbacks[ix[k]].kind = "user"
       /\ \E st \in {CallbackPhase(SubSeq(ix, 1, FirstUser(ix) - 1), callbacks,
                                   [tx |-> tx, buf |-> buf, invoked |-> invoked,
                                    rx |-> rxAlive, calls |-> <<>>])},
             id \in {requests[ix[FirstUser(ix)]]},
             r \in {BorrowMut(borrow + 1)} :
            /\ indices' = ix
            /\ nat' = [i \in Ids |->
                         IF i \in {requests[ix[k]] : k \in 1..Len(ix)}
                         THEN "null" ELSE nat[i]]
            /\ tx' = st.tx
            /\ buf' = st.buf
            /\ invoked' = [st.invoked EXCEPT ![id] = Inc(@)]
            /\ calls' = Append(st.calls, id)
            /\ answer' = ix
            /\ borrow' = IF r = "ok" THEN 2 ELSE 0
            /\ panicked' = Panic(r, "already borrowed")
  /\ UNCHANGED tagVars
  /\ UNCHANGED <<requests, cancelables, callbacks, stop, phase, ready, closes,
                 armed, cancelIssued, mailbox, arrived, rxAlive, destroyed,
                 sendVars, iended, fb, codecVars, streamVars>>

\* --------------------------------------------- the example program's tasks

\* The executor polls the Switch's task when it is notified ...
ExecSwitchPoll == armed /\ SwitchPoll

\* ... and drops it once it has returned Ready
ExecSwitchDrop == ready /\ DropSwitch

\* buffered(1) under for_each: the stream is polled only while the single
\* slot is free and no item is with the closure.  The messages come from one
\* rank, so the probe matches the oldest one.
BufferedStreamPoll ==
  /\ Running
  /\ ~iended
  /\ \A id \in Ids : fb[id] # "held" /\ buf[id] # "user"
  /\ \/ IncomingPollOrphan
     \/ IncomingPollNoMatch
     \/ IncomingPollMatch(1)

\* buffered(1): the future in the slot is polled; for_each takes its item
BufferedFuturePoll == \E id \in Ids : FutureBufferPoll(id)

\* for_each's closure is run on the item: it reads the message and drops it
ForEachItem ==
  /\ Running
  /\ \E id \in Ids :
       /\ fb[id] = "resolved"
       /\ buf[id] = "user"
       /\ buf' = [buf EXCEPT ![id] = "freed"]
  /\ calls' = <<>>
  /\ answer' = <<>>
  /\ UNCHANGED tagVars
  /\ UNCHANGED <<poolVars, stop, phase, ready, panicked, closes, cellVars,
                 nativeVars, tx, rxAlive, invoked, destroyed, sendVars, iended,
                 fb, codecVars, streamVars>>

\* the other rank's one message arrives
EchoArrive == arrived = 0 /\ Arrive

\* link.send(..) builds the send future, which is spawned as a task
EchoSpawnSend == \E s \in Sends : NewSend(s)

\* the send task is polled when spawned and when its one-shot wakes it, as
\* long as core.run has not returned
EchoSendTask ==
  \E s \in Sends :
    /\ ~iended
    /\ sstate[s] = "Pending" \/ tx[SendId(s)] \in {"sent", "dropped"}
    /\ SendPoll(s)

\* The run queue is served in order: the send task, spawned right after the
\* Switch, has had its first poll before the Switch is polled with stop set
\* (which cannot be the Switch's first poll, since only a sweep resolves the
\* item that leads to close()).
EchoSwitchPoll ==
  /\ stop => \A s \in Sends : sstate[s] \notin {"None", "Pending"}
  /\ ExecSwitchPoll

\* for_each's closure, having printed the first item: link.link.close()
EchoClose ==
  /\ Len(consumed) = 1
  /\ buf[consumed[1]] = "freed"
  /\ closes = 0
  /\ Close

\* ------------------------------------------------------- specifications

Next ==
  \/ \E id \in Ids : NativeComplete(id)
  \/ Arrive
  \/ \E s \in Sends : NewSend(s)
  \/ \E s \in Sends : SendPoll(s)
  \/ \E s \in Sends : DropSend(s)
  \/ IncomingPoll
  \/ \E id \in Ids : FutureBufferPoll(id)
  \/ \E id \in Ids : DropFutureBuffer(id)
  \/ SwitchPoll
  \/ PoolWait
  \/ Close
  \/ DropSwitch
  \/ DropFinish

Spec == Init /\ [][Next]_vars

\* A rank whose Switch stays alive and unclosed, on which no poll panics, and
\* for which the Switch keeps being polled and the native layer completes
\* every request it was given.
LiveNext ==
  \/ \E id \in Ids : NativeComplete(id)
  \/ Arrive
  \/ \E s \in Sends : NewSend(s)
  \/ \E s \in Sends : SendPoll(s) /\ panicked' = "none"
  \/ \E s \in Sends : DropSend(s)
  \/ IncomingPoll
  \/ \E id \in Ids : FutureBufferPoll(id)
  \/ \E id \in Ids : DropFutureBuffer(id)
  \/ SwitchPoll
  \/ PoolWait

LiveSpec ==
  /\ Init
  /\ [][LiveNext]_vars
  /\ WF_vars(SwitchPoll)
  /\ WF_vars(\E id \in Ids : NativeComplete(id))

\* A rank whose application holds the pool borrowed through
\* modify_request_poll, nests such calls, and posts callbacks that re-enter
\* the Link.
ReentryNext ==
  \/ \E id \in Ids : NativeComplete(id)
  \/ Arrive
  \/ IncomingPoll
  \/ BufferedFuturePoll
  \/ ModifyEnter
  \/ ModifyExit
  \/ \E s \in Sends : PostUser(s)
  \/ SwitchPoll
  \/ SwitchPollReenter

ReentrySpec == Init /\ [][ReentryNext]_vars

\* One rank of the ring of two of examples/simple.rs: the Switch and the
\* send are spawned, the main task consumes incoming(..).buffered(1) and
\* closes the Link at the first item.  The other rank runs the same program:
\* it sends one message and receives ours.
EchoNext ==
  \/ \E id \in Ids : NativeComplete(id)
  \/ EchoArrive
  \/ EchoSpawnSend
  \/ EchoSendTask
  \/ BufferedStreamPoll
  \/ BufferedFuturePoll
  \/ ForEachItem
  \/ EchoClose
  \/ EchoSwitchPoll
  \/ ExecSwitchDrop
  \/ DropFinish

EchoSpec ==
  /\ Init
  /\ [][EchoNext]_vars
  /\ WF_vars(\E id \in Ids : NativeComplete(id))
  /\ WF_vars(EchoArrive)
  /\ WF_vars(EchoSpawnSend)
  /\ WF_vars(EchoSendTask)
  /\ WF_vars(BufferedStreamPoll)
  /\ WF_vars(BufferedFuturePoll)
  /\ WF_vars(ForEachItem)
  /\ WF_vars(EchoClose)
  /\ WF_vars(EchoSwitchPoll)
  /\ WF_vars(ExecSwitchDrop)
  /\ WF_vars(DropFinish)

\* A receiver that consumes incoming(..).buffered(1) serially while one
\* other rank sends it a sequence of messages; the Switch keeps running.
SerialNext ==
  \/ \E id \in Ids : NativeComplete(id)
  \/ Arrive
  \/ BufferedStreamPoll
  \/ BufferedFuturePoll
  \/ ForEachItem
  \/ ExecSwitchPoll

SerialSpec ==
  /\ Init
  /\ [][SerialNext]_vars
  /\ WF_vars(\E id \in Ids : NativeComplete(id))
  /\ WF_vars(Arrive)
  /\ WF_vars(BufferedStreamPoll)
  /\ WF_vars(BufferedFuturePoll)
  /\ WF_vars(ForEachItem)
  /\ WF_vars(ExecSwitchPoll)

\* A rank whose Switch is dropped at any moment, on a native layer that
\* completes every send it was given and every receive that was cancelled;
\* the drop, once it can return from wait_all, does.
TeardownNext ==
  \/ \E id \in Ids : NativeComplete(id)
  \/ Arrive
  \/ \E s \in Sends : NewSend(s)
  \/ \E s \in Sends : SendPoll(s)
  \/ IncomingPoll
  \/ SwitchPoll
  \/ Close
  \/ DropSwitch
  \/ DropFinish

TeardownSpec ==
  /\ Init
  /\ [][TeardownNext]_vars
  /\ WF_vars(\E id \in Ids : NativeComplete(id))
  /\ WF_vars(DropFinish)

\* A rank that runs NumStreams incoming streams with the same source
\* selector on one Switch, each polled whenever its task is scheduled.
Streams == 1..NumStreams

MultiNext ==
  \/ \E id \in Ids : NativeComplete(id)
  \/ Arrive
  \/ \E t \in Streams : StreamPoll(t)
  \/ \E id \in Ids : FutureBufferPoll(id)
  \/ SwitchPoll

MultiSpec == Init /\ [][MultiNext]_vars

\* A rank whose sends go through a codec that picks the tag: the tags are
\* the ends of the u16 range and the two values around the guaranteed
\* minimum of MPI_TAG_UB.
Tags == {0, 1, MinTagUB, MinTagUB + 1, U16Max}

TagNext ==
  \/ \E id \in Ids : NativeComplete(id)
  \/ \E s \in Sends : NewSend(s)
  \/ \E s \in Sends, t \in Tags : CodecSendPoll(s, t)
  \/ \E s \in Sends : DropSend(s)
  \/ SwitchPoll
  \/ Close
  \/ DropSwitch
  \/ DropFinish

TagSpec == Init /\ [][TagNext]_vars

\* ------------------------------------------------------------ vocabulary

\* Link::close has been called
closeCalled == closes > 0
Posted(id) == nat[id] # "none"
InPool(id) == \E i \in 1..Len(callbacks) : callbacks[i].id = id
Disposals(id) == invoked[id] + destroyed[id]
Outstanding(id) ==
  nat[id] \in {"active", "cancelling", "done", "cancelled"}
Released(id) == buf[id] \in {"delivered", "user", "freed"}

\* ------------------------------------------------------------------ C1

\* C1: a posted request's buffer is handed back through the callback, or
\* freed, only once the native layer is finished with the request: a callback
\* has run only for an entry a sweep reported complete, and a callback is
\* destroyed uninvoked only by a teardown whose wait over it has returned.
C1_BufferHeldUntilNativeDone ==
  \A id \in Ids :
    /\ Released(id) => nat[id] = "null"
    /\ invoked[id] > 0 => nat[id] = "null"
    /\ destroyed[id] > 0 => nat[id] = "null" /\ phase = "gone"

\* a sweep handed one buffer on and a teardown, after cancelling and waiting,
\* destroyed another
C1_Witness ==
  \E a, b \in Ids :
    /\ invoked[a] = 1 /\ Released(a)
    /\ destroyed[b] = 1 /\ buf[b] = "freed" /\ b \in cancelIssued

\* ------------------------------------------------------------------ C2

C3_DrainedOnceReady ==
  (closeCalled /\ ready) =>
    /\ Len(requests) = 0
    /\ \A id \in Ids : ~Outstanding(id) /\ buf[id] # "pinned"

\* C3 amended: once close() was called, a poll of the Switch has returned
\* ready and the Switch has then been dropped (its teardown has returned), no
\* request of the pool is outstanding and no buffer is held.
C3_DrainedOnceReadyAndDropped ==
  (closeCalled /\ ready /\ phase = "gone") =>
    /\ Len(requests) = 0
    /\ \A id \in Ids : ~Outstanding(id) /\ buf[id] # "pinned"

\* the Switch was closed, polled ready and dropped while a send and a receive
\* were outstanding
C3_Witness ==
  /\ closeCalled /\ ready /\ phase = "gone"
  /\ \E a, b \in Ids : /\ destroyed[a] = 1 /\ a \in cancelIssued
                       /\ destroyed[b] = 1 /\ b \notin cancelIssued

\* ------------------------------------------------------------------ C4

\* C4: no poll of a send future that has not resolved finds it in Invalid: no
\* poll panics with "invalid state", and a poll that does not resolve the
\* future does not leave Invalid behind.
C4_InvalidNeverObserved ==
  /\ panicked # "invalid state"
  /\ \A s \in Sends : sstate[s] = "Invalid" => sresolved[s]

\* ------------------------------------------------------------------ C5

\* C5: a poll of the incoming stream made after close() was called returns
\* end-of-stream.
C5_EndOfStreamAfterClose ==
  [][(closeCalled /\ IncomingPoll) => iended']_vars

\* ------------------------------------------------------------------ C6

\* C6: a FutureBuffer whose receive was still in the pool at teardown does not
\* panic when polled afterwards.
C6_FutureBufferBenignAfterTeardown ==
  (stop /\ phase = "gone") => panicked # "sender cancelled"

\* ------------------------------------------------------------------ C7

\* C7: with the Switch gone, the first poll of a send future resolves it
\* without posting a send, and a poll of the incoming stream ends the stream
\* without probing; the pool, the native layer, the mailbox and every buffer
\* and one-shot are left as they were.
C7_OrphanPollsAreBenign ==
  [][phase = "gone" =>
       /\ \A s \in Sends :
            (SendPoll(s) /\ sstate[s] = "Pending") =>
              /\ sresolved'[s]
              /\ panicked' = "none"
              /\ UNCHANGED <<poolVars, nativeVars, chanVars, iended, fb>>
       /\ IncomingPoll =>
            /\ iended'
            /\ panicked' = "none"
            /\ UNCHANGED <<poolVars, nativeVars, chanVars, sendVars, fb>>]_vars

\* after the Switch is gone a send future resolved without ever posting and
\* the stream ended although a message was there to be matched
C7_Witness ==
  /\ phase = "gone"
  /\ iended
  /\ mailbox # <<>>
  /\ \E s \in Sends : sresolved[s] /\ ~Posted(SendId(s))

\* ------------------------------------------------------------------ C8

\* C8: a Started send future whose one-shot sender was dropped without
\* sending resolves ready, without a panic, on its next poll.
C8_CancelledOneshotIsSuccess ==
  [][\A s \in Sends :
       (SendPoll(s) /\ sstate[s] = "Started" /\ tx[SendId(s)] = "dropped") =>
         (sresolved'[s] /\ panicked' = "none")]_vars

\* a send future resolved although its callback was destroyed uninvoked
C8_Witness ==
  \E s \in Sends :
    /\ sresolved[s]
    /\ tx[SendId(s)] = "dropped"
    /\ destroyed[SendId(s)] = 1 /\ invoked[SendId(s)] = 0

\* ------------------------------------------------------------------ C9

\* C9: once close() has been called, no request is added to the pool.
C9_NoPostAfterClose ==
  [][closeCalled => \A id \in Ids : ~Posted(id) => nat'[id] = "none"]_vars

\* ------------------------------------------------------------------ C10

\* C10: with a live Switch that keeps being polled and a native layer that
\* completes every request, whatever the interleaving of posts and sweeps,
\* the callback of every posted send and of every posted receive is invoked
\* exactly once (the count of invocations only grows, and ends at one), none
\* is invoked for a request never posted or destroyed uninvoked, and the pool
\* ends empty.
C10_EveryPostedCallbackRuns ==
  <>[](/\ Len(requests) = 0
       /\ \A id \in Ids : (Posted(id) => invoked[id] = 1)
       /\ \A id \in Ids : (~Posted(id) => invoked[id] = 0)
       /\ \A id \in Ids : destroyed[id] = 0)

\* every send and every receive was posted, each callback ran once, the pool
\* is empty
C10_Witness ==
  /\ \A id \in Ids : Posted(id) /\ invoked[id] = 1
  /\ Len(requests) = 0

\* ------------------------------------------------------------------ C12

\* the requests of the pool, and the positions a sweep finds complete
PoolIds == {requests[i] : i \in 1..Len(requests)}
DoneInPool == {id \in PoolIds : nat[id] = "done"}

\* C12: a poll of the Switch returns ready exactly when stop is set at that
\* poll, and then touches neither the pool nor the native layer nor any
\* callback; otherwise it runs one non-blocking sweep (each entry the native
\* layer has completed is invoked once and removed, every other entry stays,
\* even if nothing has completed), notifies its own task and returns
\* not-ready.  No step clears stop, so once a poll has returned ready every
\* later poll does.
C12_SwitchPollReadyIffStop ==
  [][/\ SwitchPoll =>
          /\ ready' <=> stop
          /\ stop => /\ ~armed'
                     /\ UNCHANGED <<poolVars, nativeVars, chanVars>>
          /\ ~stop => /\ armed'
                      /\ {requests'[i] : i \in 1..Len(requests')}
                           = PoolIds \ DoneInPool
                      /\ Len(requests') = Len(requests) - Cardinality(DoneInPool)
                      /\ \A id \in Ids :
                           invoked'[id] = IF id \in DoneInPool
                                          THEN Inc(invoked[id]) ELSE invoked[id]
     /\ stop => stop'
     /\ ready => (ready' /\ stop')]_vars

\* a not-ready poll swept one entry and left another in the pool; then, after
\* close(), a poll returned ready and left that entry where it was
C12_Witness ==
  /\ ready /\ ~armed /\ phase = "live"
  /\ \E a, b \in Ids : invoked[a] = 1 /\ InPool(b) /\ nat[b] = "done"

\* ------------------------------------------------------------------ C13

C14_CloseIdempotent ==
  [][Close =>
       /\ stop' = (stop \/ phase = "live")
       /\ UNCHANGED <<poolVars, phase, ready, panicked, cellVars, nativeVars,
                      chanVars, sendVars, iended, fb, codecVars, streamVars>>
       /\ (closes >= 1 \/ phase = "gone") => stop' = stop]_vars

\* close() was called twice on a live Switch whose pool held an entry
C14_Witness ==
  /\ closes = 2 /\ stop /\ phase = "live" /\ ~ready
  /\ Len(requests) > 0

\* ------------------------------------------------------------------ C16

\* the entries of the pool that were posted as matched receives
RecvsInPool == {callbacks[i].id : i \in {j \in 1..Len(callbacks) :
                                           callbacks[j].kind = "recv"}}

\* C16: when the pool is dropped, MPI_Cancel is issued for exactly the
\* entries then in the pool that were posted as matched receives, and never
\* for a send; while teardown waits nothing is cancelled, invoked or
\* destroyed; a callback is destroyed only by the end of teardown, when no
\* request of the pool is still active, and it has not been invoked.
C16_TeardownCancelsReceivesThenWaits ==
  [][/\ DropSwitch =>
          /\ cancelIssued' = RecvsInPool
          /\ UNCHANGED <<poolVars, chanVars>>
     /\ ~DropSwitch => cancelIssued' = cancelIssued
     /\ \A s \in Sends : SendId(s) \notin cancelIssued'
     /\ \A id \in Ids :
          destroyed'[id] # destroyed[id] =>
            /\ phase = "draining" /\ phase' = "gone"
            /\ \A i \in 1..Len(requests) :
                 nat[requests[i]] \notin {"active", "cancelling"}
            /\ InPool(id)
            /\ invoked'[id] = 0 /\ destroyed'[id] = 1
     /\ phase = "draining" => invoked' = invoked]_vars

\* after teardown: one receive had been swept before the drop and was not
\* cancelled, the other was cancelled and destroyed, the send was waited on
\* and destroyed without a cancel
C16_Witness ==
  /\ phase = "gone"
  /\ \E a, b \in Ids \ {SendId(s) : s \in Sends} :
       /\ invoked[a] = 1 /\ a \notin cancelIssued
       /\ destroyed[b] = 1 /\ b \in cancelIssued
  /\ \E s \in Sends : destroyed[SendId(s)] = 1 /\ SendId(s) \notin cancelIssued

\* ------------------------------------------------------------------ C17

\* the future of request id was dropped before it resolved
Orphaned(id) ==
  \/ \E s \in Sends : id = SendId(s) /\ sstate[s] = "Dropped" /\ Posted(id)
  \/ fb[id] = "dropped"

\* a step that runs a completion sweep
SweepStep == (SwitchPoll /\ ~stop) \/ PoolWait

\* C17: dropping a started send future or a FutureBuffer leaves the pool,
\* the native requests and the set of cancelled requests as they are; the
\* entry of a dropped future stays in the pool while its request is
\* incomplete, and the first sweep after the request completes invokes its
\* callback, which frees the buffer and does not panic, and removes the entry.
C17_DroppedFutureEntryRunsToCompletion ==
  [][/\ \A s \in Sends :
          DropSend(s) => UNCHANGED <<poolVars, nat, cancelIssued, buf, tx>>
     /\ \A id \in Ids :
          DropFutureBuffer(id) => UNCHANGED <<poolVars, nat, cancelIssued, tx>>
     /\ \A id \in Ids :
          (Orphaned(id) /\ InPool(id)) =>
            /\ (SweepStep /\ nat[id] = "done") =>
                 /\ ~InPool(id)' /\ invoked'[id] = 1
                 /\ buf'[id] = "freed" /\ tx'[id] = "failed"
                 /\ panicked' = "none"
            /\ (nat[id] = "active" /\ phase' = "live") => InPool(id)']_vars

\* a send future and a FutureBuffer were dropped with their requests
\* outstanding; both callbacks ran later and discarded their buffers
C17_Witness ==
  /\ \E s \in Sends : /\ sstate[s] = "Dropped" /\ invoked[SendId(s)] = 1
                      /\ tx[SendId(s)] = "failed" /\ buf[SendId(s)] = "freed"
  /\ \E id \in Ids : /\ fb[id] = "dropped" /\ invoked[id] = 1
                     /\ tx[id] = "failed" /\ buf[id] = "freed"
  /\ panicked = "none"

\* ------------------------------------------------------------------ C18

\* C18: the k-th item the incoming stream yielded is the receive of the k-th
\* message its probes matched: as many items as matches, none twice, and
\* every message taken from the mailbox is among them.
C18_StreamFollowsProbeOrder ==
  /\ Len(yielded) = Len(matched)
  /\ \A k \in 1..Len(matched) : yielded[k] = RecvId(matched[k])
  /\ \A j, k \in 1..Len(matched) : matched[j] = matched[k] => j = k
  /\ {matched[k] : k \in 1..Len(matched)}
       = (1..arrived) \ {mailbox[k] : k \in 1..Len(mailbox)}

\* two messages were matched, the later arrival first; the two futures
\* resolved in the other order
C18_Witness ==
  /\ matched = <<2, 1>>
  /\ Len(consumed) = 2
  /\ consumed[1] = yielded[2] /\ consumed[2] = yielded[1]

\* ------------------------------------------------------------------ C20

\* C20: the buffer a receive future resolves to (and the buffer a callback
\* delivers) holds exactly the bytes the sender handed to the byte codec: its
\* length is the element count of the probe status, no byte of it was left
\* unwritten, and the message travelled under tag zero.
C20_U8CodecRoundTrip ==
  \A m \in Msgs :
    buf[RecvId(m)] \in {"delivered", "user"} =>
      /\ Len(data[RecvId(m)]) = StatusCount(wire[m])
      /\ data[RecvId(m)] = sentMsg[m]
      /\ \A i \in 1..Len(data[RecvId(m)]) : data[RecvId(m)][i] # Uninit
      /\ wire[m].tag = 0

\* an empty message and a one-byte message were both received
C20_Witness ==
  \E a, b \in Msgs :
    /\ fb[RecvId(a)] = "resolved" /\ data[RecvId(a)] = <<>>
    /\ fb[RecvId(b)] = "resolved" /\ data[RecvId(b)] = <<255>>

\* ------------------------------------------------------------------ C11

\* core.run has returned and the Switch has been torn down
EchoTerminated == iended /\ phase = "gone" /\ panicked = "none"

\* the one message of the other rank was received, with its bytes
EchoReceived ==
  /\ arrived = 1 /\ mailbox = <<>>
  /\ consumed = <<RecvId(1)>>
  /\ buf[RecvId(1)] = "freed" /\ data[RecvId(1)] = sentMsg[1]
  /\ invoked[RecvId(1)] = 1
  /\ \A m \in Msgs : m # 1 => ~Posted(RecvId(m))

\* C11 as stated: on every interleaving the rank ends with its one send
\* completed by its callback and its send future resolved, its one receive
\* delivered with the other rank's bytes, and the program terminated.
C11_EchoSendCallbackRuns ==
  <>[](/\ EchoTerminated
       /\ EchoReceived
       /\ \A s \in Sends : invoked[SendId(s)] = 1 /\ sresolved[s])

\* C11 amended: on every interleaving the rank ends with its one send
\* complete at the native layer and disposed of exactly once (its callback
\* invoked by a sweep, or destroyed by the teardown that waited for the
\* send), its one receive delivered with the other rank's bytes, and the
\* program terminated; the send future, when it has resolved, did so after
\* the send completed.
C11_EchoSendCompletes ==
  <>[](/\ EchoTerminated
       /\ EchoReceived
       /\ \A s \in Sends :
            /\ nat[SendId(s)] = "null"
            /\ Disposals(SendId(s)) = 1
            /\ buf[SendId(s)] = "freed"
            /\ sresolved[s] => tx[SendId(s)] \in {"sent", "dropped"})

\* the rank terminated with the send completed by teardown: its callback was
\* destroyed uninvoked and the send task was never polled again
C11_Witness ==
  /\ EchoTerminated
  /\ EchoReceived
  /\ \E s \in Sends : /\ destroyed[SendId(s)] = 1 /\ invoked[SendId(s)] = 0
                      /\ ~sresolved[s] /\ nat[SendId(s)] = "null"

\* ------------------------------------------------------------------ C15

\* C15: a call of modify_request_poll made while the pool is borrowed
\* panics and leaves the pool as it is, be it nested in the closure of
\* another call or made by a callback that the Switch's sweep runs; there
\* are never two mutable borrows of the pool.
C15_ReentrantBorrowPanics ==
  [][/\ borrow' <= 1
     /\ (ModifyEnter /\ borrow >= 1) =>
          /\ panicked' = "already borrowed"
          /\ UNCHANGED <<poolVars, borrow>>
     /\ SwitchPollReenter =>
          /\ panicked' = "already borrowed"
          /\ UNCHANGED <<requests, cancelables, callbacks>>]_vars

\* a sweep ran one callback, then one that re-entered the Link and panicked
\* before any entry was removed
C15_Witness ==
  /\ panicked = "already borrowed"
  /\ Len(indices) = 2
  /\ \A k \in 1..Len(indices) : invoked[requests[indices[k]]] = 1
  /\ \E i \in 1..Len(callbacks) : callbacks[i].kind = "user"

\* ------------------------------------------------------------------ C19

\* the receives of the stream that are in the pool
RecvsOutstanding == {m \in Msgs : InPool(RecvId(m))}

\* C19: with a single-slot buffered consumer and one sending rank, the pool
\* never holds more than one receive, the messages reach the consumer in the
\* order they were sent, each with its bytes, and in the end all of them have.
C19_SerialInOrderOneOutstanding ==
  /\ [](/\ Cardinality(RecvsOutstanding) <= 1
        /\ Len(requests) <= 1
        /\ \A k \in 1..Len(consumed) :
             consumed[k] = RecvId(k) /\ data[RecvId(k)] = sentMsg[k])
  /\ <>[](Len(consumed) = MaxMsgs /\ \A id \in Ids : buf[id] # "user")

\* every message was consumed, in order, and they were not all alike
C19_Witness ==
  /\ Len(consumed) = MaxMsgs
  /\ \A k \in 1..Len(consumed) : consumed[k] = RecvId(k)
  /\ \E j, k \in Msgs : sentMsg[j] # sentMsg[k]
  /\ Len(requests) = 0

\* ---------------------------------------------------------------- C21
\* C21 as stated: every tag handed to the native nonblocking send is at most
\* the minimum tag upper bound the MPI standard guarantees (2^15 - 1).
C21_TagUnderMinimumUpperBound ==
  \A s \in Sends : Posted(SendId(s)) => ntag[SendId(s)] <= MinTagUB

\* C21: every tag handed to the native nonblocking send lies in the u16
\* range 0..=0xFFFF, which reaches above the guaranteed minimum of
\* MPI_TAG_UB, and the conversion of the tag to c_int never fails: no send
\* poll panics in the unwrap.
C21_TagInU16RangeConversionTotal ==
  /\ \A s \in Sends : Posted(SendId(s)) => ntag[SendId(s)] \in 0..U16Max
  /\ \A id \in Ids : ~Posted(id) => ntag[id] = NoTag
  /\ panicked # "unwrap"
  /\ \A t \in Tags : TagToNative(t) = [ok |-> TRUE, value |-> t]

C21_Witness ==
  \E s \in Sends : Posted(SendId(s)) /\ ntag[SendId(s)] = U16Max

\* ---------------------------------------------------------------- C22
\* C22: test() or wait() on a pool with no entries returns at once (wait()
\* is enabled, it does not block), issues no native call (no request
\* changes its native state, the index cache stays as it is), runs no
\* callback and leaves the pool, the buffers and the one-shots unchanged.
C22_EmptyPoolSweepIsNoOp ==
  /\ [](Running /\ Upgrade(phase) /\ Len(requests) = 0 => ENABLED PoolWait)
  /\ [][SweepStep /\ Len(requests) = 0 =>
         /\ UNCHANGED <<poolVars, nativeVars, chanVars>>
         /\ calls' = <<>>]_vars

\* An empty sweep leaves the state as it is, so the state it ends in is the
\* state it started in: a live, unstopped Switch whose pool has been emptied
\* by earlier sweeps and on which both test() and wait() can run.
C22_Witness ==
  /\ Len(requests) = 0
  /\ \E id \in Ids : nat[id] = "null"
  /\ ENABLED PoolWait
  /\ ENABLED SwitchPollTest
  /\ Running /\ phase = "live" /\ ~stop

\* ---------------------------------------------------------------- C23
\* the positions of the pool the native call of this step reported complete
ReportedPositions ==
  {i \in 1..Len(requests) :
     nat[requests[i]] # "null" /\ nat'[requests[i]] = "null"}

\* position i of the three vectors holds one posted request, its flag and
\* its callback
Aligned ==
  /\ Len(cancelables) = Len(requests)
  /\ Len(callbacks) = Len(requests)
  /\ \A i \in 1..Len(requests) :
       /\ callbacks[i].id = requests[i]
       /\ cancelables[i] <=> callbacks[i].kind = "recv"
       /\ \A j \in 1..Len(requests) : requests[j] = requests[i] => j = i

\* C23: the requests, cancellable-flags and callbacks vectors always have
\* equal length with position i of each belonging to the same posted
\* request; a sweep whose native call reports the positions K removes
\* exactly the entries at K and keeps exactly the others, each kept request
\* still with its own flag and callback.
C23_VectorsAlignedSweepRemovesReported ==
  /\ []Aligned
  /\ [][SweepStep =>
         /\ Len(requests') = Len(requests) - Cardinality(ReportedPositions)
         /\ \A i \in 1..Len(requests) :
              IF i \in ReportedPositions
              THEN \A j \in 1..Len(requests') : requests'[j] # requests[i]
              ELSE \E j \in 1..Len(requests') :
                     /\ requests'[j] = requests[i]
                     /\ cancelables'[j] = cancelables[i]
                     /\ callbacks'[j] = callbacks[i]]_vars

\* a sweep has just removed two of three entries and kept the third
C23_Witness ==
  /\ Len(calls) = 2
  /\ Len(requests) = 1
  /\ Aligned
  /\ nat[requests[1]] \in {"active", "done"}

\* ---------------------------------------------------------------- C24
\* C24: within one sweep the callbacks run in exactly the order of the index
\* list the native call returned, one per index, each being the callback
\* of the entry that index named in the pool as the native call found it
\* (no slot has been removed when a callback runs), and each of them has
\* run when the sweep ends and its entries are gone from the pool.
C24_CallbacksInIndexOrderBeforeRemoval ==
  [][SweepStep =>
       /\ Len(calls') = Len(answer')
       /\ \A k \in 1..Len(answer') :
            /\ answer'[k] \in 1..Len(callbacks)
            /\ calls'[k] = callbacks[answer'[k]].id
            /\ calls'[k] = requests[answer'[k]]
            /\ invoked'[calls'[k]] = Inc(invoked[calls'[k]])
            /\ ~\E j \in 1..Len(callbacks') : callbacks'[j].id = calls'[k]
       /\ \A id \in Ids :
            (\A k \in 1..Len(calls') : calls'[k] # id) =>
              invoked'[id] = invoked[id]]_vars

\* a sweep has just run two callbacks for an index list that was not sorted
C24_Witness ==
  /\ Len(answer) = 2
  /\ answer[1] > answer[2]
  /\ Len(calls) = 2
  /\ \A k \in 1..2 : invoked[calls[k]] = 1

\* ---------------------------------------------------------------- C25
\* position of the receive id in the pool, and in the order of the posts of
\* the stream (mrecv is posted when the stream yields the future)
PoolPosition(id) == CHOOSE i \in 1..Len(callbacks) : callbacks[i].id = id
PostPosition(id) == CHOOSE k \in 1..Len(yielded) : yielded[k] = id

\* C25 as stated, for the receives: two receives that remain in the
\* cancellable-flags and callbacks vectors stand there in the order in which
\* they were posted.
C25_RemainingInPostOrder ==
  \A a, b \in RecvsInPool :
    PostPosition(a) < PostPosition(b) => PoolPosition(a) < PoolPosition(b)

\* C25: a post appends its entry at the end of all three vectors, and a
\* sweep leaves in place the entries that stand before the lowest position
\* it removes; entries behind that position may change places (the last
\* entry takes the freed slot), so the remaining entries need not stand in
\* the order of their posts.
C25_PostAppendsSweepKeepsPrefix ==
  [][/\ Len(requests') = Len(requests) + 1 =>
          /\ SubSeq(requests', 1, Len(requests)) = requests
          /\ SubSeq(cancelables', 1, Len(requests)) = cancelables
          /\ SubSeq(callbacks', 1, Len(requests)) = callbacks
     /\ SweepStep =>
          \A i \in 1..Len(requests) :
            (\A k \in ReportedPositions : i < k) =>
               /\ i <= Len(requests')
               /\ requests'[i] = requests[i]
               /\ cancelables'[i] = cancelables[i]
               /\ callbacks'[i] = callbacks[i]]_vars

\* a sweep has just removed the first of three entries, and the receive
\* posted last has taken its place in front of the receive posted before it
C25_Witness ==
  /\ answer = <<1>>
  /\ Len(yielded) = 2
  /\ requests = <<yielded[2], yielded[1]>>
  /\ Aligned

\* ---------------------------------------------------------------- C26
\* number of positions of the sequence q that hold x
Count(q, x) == Cardinality({k \in 1..Len(q) : q[k] = x})

\* C26: with several incoming streams on one Switch, every message that has
\* arrived is either still waiting to be matched (no stream has it, no
\* receive is posted for it) or was matched by exactly one stream, with
\* exactly one receive posted and one future emitted for it; none is lost
\* and none is matched twice.
C26_EachMessageMatchedByOneStream ==
  \A m \in Msgs :
    /\ m > arrived => owner[m] = 0 /\ Count(mailbox, m) = 0
    /\ m <= arrived => Count(mailbox, m) + Count(matched, m) = 1
    /\ Count(mailbox, m) = 1 =>
         /\ owner[m] = 0
         /\ ~Posted(RecvId(m))
         /\ fb[RecvId(m)] = "none"
    /\ Count(matched, m) = Count(yielded, RecvId(m))
    /\ Count(matched, m) = 1 =>
         /\ owner[m] \in Streams
         /\ Posted(RecvId(m))
         /\ fb[RecvId(m)] # "none"
         /\ Count(requests, RecvId(m)) + Disposals(RecvId(m)) = 1

\* each of the two streams has matched one of two messages, the second
\* stream the one that arrived first, and both futures have resolved
C26_Witness ==
  /\ owner[1] = 2
  /\ owner[2] = 1
  /\ Len(consumed) = 2

\* ---------------------------------------------------------------- C27
\* C27: when the native layer completes every outstanding send and every
\* cancelled receive, a drop of the Switch that has begun ends, with an
\* empty pool and no request outstanding; and the drop never ends in a
\* state where a request of the pool is still in progress.
C27_TeardownTerminatesWithNothingOutstanding ==
  /\ (phase = "draining") ~>
       (/\ phase = "gone"
        /\ Len(requests) = 0
        /\ \A id \in Ids : ~Outstanding(id))
  /\ [][phase = "draining" /\ phase' = "gone" =>
         \A i \in 1..Len(requests) :
           nat[requests[i]] \notin {"active", "cancelling"}]_vars

\* a teardown that had a send to wait for and a receive to cancel has ended
C27_Witness ==
  /\ phase = "gone"
  /\ \E s \in Sends : destroyed[SendId(s)] = 1
  /\ \E m \in Msgs : RecvId(m) \in cancelIssued /\ destroyed[RecvId(m)] = 1
  /\ \A id \in Ids : ~Outstanding(id)

\* ---------------------------------------------------------------- C28
\* C28: a send future posts its native send in its first poll and at no
\* other time: building the future posts nothing, a step posts the send
\* only if it is the poll that takes the future from Pending to Started (a
\* first poll that finds the Switch alive always does), a future dropped or
\* polled in any other state posts nothing, and once posted the send is
\* never posted again; the pool holds at most one entry per send future and
\* that entry is not cancellable.
C28_SendPostedOnFirstPollOnly ==
  /\ [](\A s \in Sends :
         /\ Count(requests, SendId(s)) <= 1
         /\ sstate[s] \in {"None", "Pending"} => ~Posted(SendId(s))
         /\ \A i \in 1..Len(requests) :
              requests[i] = SendId(s) =>
                ~cancelables[i] /\ callbacks[i].kind = "send")
  /\ [][\A s \in Sends :
         /\ NewSend(s) => UNCHANGED <<poolVars, nativeVars, chanVars, ntag>>
         /\ (~Posted(SendId(s)) /\ Posted(SendId(s))') =>
              /\ SendPoll(s)
              /\ sstate[s] = "Pending" /\ sstate'[s] = "Started"
              /\ requests' = Append(requests, SendId(s))
              /\ cancelables' = Append(cancelables, FALSE)
         /\ (SendPoll(s) /\ sstate[s] = "Pending" /\ Upgrade(phase)) =>
              Posted(SendId(s))'
         /\ (SendPoll(s) /\ sstate[s] # "Pending") =>
              UNCHANGED <<poolVars, nativeVars, ntag>>
         /\ DropSend(s) => UNCHANGED <<poolVars, nativeVars, ntag>>
         /\ (sstate[s] = "Dropped" /\ ~Posted(SendId(s))) =>
              ~Posted(SendId(s))'
         /\ Posted(SendId(s)) =>
              /\ Count(requests', SendId(s)) <= Count(requests, SendId(s))
              /\ ntag'[SendId(s)] = ntag[SendId(s)]]_vars

\* a send future has been polled a second time while its send, posted by
\* the first poll, is still in the pool: the pool holds that one entry
C28_Witness ==
  \E s \in Sends :
    /\ sstate[s] = "Invalid"
    /\ ~sresolved[s]
    /\ Count(requests, SendId(s)) = 1
    /\ Outstanding(SendId(s))

\* ---------------------------------------------------------------- C29
\* C29: between pool operations of a live Switch every request handle
\* stored in the pool is an active request that has not been reported
\* complete (never null, never inactive), each stored once; so the native
\* test/wait call of a sweep over a non-empty pool is handed at least one
\* active request and its completion count is not MPI_UNDEFINED, and every
\* handle it reports complete is out of the pool when the sweep ends.
C29_PoolHoldsOnlyActiveRequests ==
  /\ [](phase = "live" /\ panicked = "none" =>
         /\ \A i \in 1..Len(requests) :
              /\ nat[requests[i]] \in {"active", "done"}
              /\ Count(requests, requests[i]) = 1
         /\ Len(requests) > 0 =>
              NativeOutcount(requests, nat) \in 0..Len(requests))
  /\ [][SweepStep =>
         \A id \in Ids :
           (nat[id] # "null" /\ nat'[id] = "null") =>
             Count(requests, id) = 1 /\ Count(requests', id) = 0]_vars

\* a sweep has just reported one request of three complete and removed it;
\* the two handles left in the pool are active
C29_Witness ==
  /\ phase = "live" /\ panicked = "none"
  /\ Len(answer) = 1
  /\ Len(requests) = 2
  /\ NativeOutcount(requests, nat) = 0
  /\ \A i \in 1..2 : nat[requests[i]] = "active"
  /\ nat[calls[1]] = "null"

====
